---- MODULE Spec2Model ----
(***************************************************************************)
(* The update_page tool of the Notion MCP server: the markdown-to-block    *)
(* conversion (createBlocks) and the list / delete / append sequence that   *)
(* update_page runs against one page of the content store, together with a  *)
(* concurrent read_page.                                                     *)
(*                                                                         *)
(* A text is a sequence of one-character strings; "\n" is the line break.   *)
(***************************************************************************)
EXTENDS Integers, Sequences, FiniteSets, TLC

----------------------------------------------------------------------------
(* Bounds of the model. *)

\* update_page calls started in one behaviour
MaxCalls == 2
\* blocks on the page before the first call
MaxExisting == 2
\* lines of the longer texts given to createBlocks
MaxLines == 4
\* lines of the texts made of every kind of line
MaxShort == 2
\* invocations of createBlocks in one behaviour
MaxInvocations == 3
\* create_page calls started in one behaviour
MaxCreates == 2

----------------------------------------------------------------------------
(* String primitives of the JavaScript runtime, as createBlocks uses them. *)

\* characters String.prototype.trim removes (those of the model's alphabet)
WhiteSpace == {" ", "\t"}

RECURSIVE TrimStart(_)
TrimStart(s) ==
    IF s = <<>> THEN <<>>
    ELSE IF Head(s) \in WhiteSpace THEN TrimStart(Tail(s)) ELSE s

RECURSIVE TrimEnd(_)
TrimEnd(s) ==
    IF s = <<>> THEN <<>>
    ELSE IF s[Len(s)] \in WhiteSpace THEN TrimEnd(SubSeq(s, 1, Len(s) - 1)) ELSE s

\* line.trim()
Trim(s) == TrimEnd(TrimStart(s))

\* s.startsWith(p)
StartsWith(s, p) == Len(s) >= Len(p) /\ SubSeq(s, 1, Len(p)) = p

\* s.substring(n), s.slice(n) for 0 <= n
Substring(s, n) == SubSeq(s, n + 1, Len(s))

\* content.split('\n'): always at least one line
RECURSIVE SplitFrom(_, _, _)
SplitFrom(s, i, cur) ==
    IF i > Len(s) THEN <<cur>>
    ELSE IF s[i] = "\n" THEN <<cur>> \o SplitFrom(s, i + 1, <<>>)
    ELSE SplitFrom(s, i + 1, Append(cur, s[i]))

\* variant: the empty text has no line
SplitNoLine(s) == IF s = <<>> THEN <<>> ELSE SplitFrom(s, 1, <<>>)

Split(s) == SplitFrom(s, 1, <<>>)

----------------------------------------------------------------------------
(* Block objects built by createBlocks.  rich_text is the sequence of the   *)
(* text segments' contents.                                                 *)

\* let currentCodeBlock = null / let block = null
Null == [type |-> "null"]

\* variant: every text block carries a checked flag
RichBlockChecked(type, text) == [type |-> type, rich_text |-> <<text>>, checked |-> FALSE]

RichBlock(type, text) == [type |-> type, rich_text |-> <<text>>]

EmptyParagraph == [type |-> "paragraph", rich_text |-> <<>>]

ToDo(text, checked) == [type |-> "to_do", rich_text |-> <<text>>, checked |-> checked]

Divider == [type |-> "divider"]

PlainText == <<"p", "l", "a", "i", "n", " ", "t", "e", "x", "t">>

\* variant: the language is what follows the token, blanks included
StartCodeBlockRaw(t) ==
    LET language == Substring(t, 3)
    IN  [type |-> "code", rich_text |-> <<>>,
         language |-> IF language = <<>> THEN PlainText ELSE language]

\* a code block just opened by the fence line whose trimmed form is t
StartCodeBlock(t) ==
    LET language == Trim(Substring(t, 3))
    IN  [type |-> "code", rich_text |-> <<>>,
         language |-> IF language = <<>> THEN PlainText ELSE language]

\* variant: the trimmed line is pushed
PushLineTrimmed(code, line) == [code EXCEPT !.rich_text = Append(@, Trim(line))]

\* currentCodeBlock.code.rich_text.push({text: {content: line}})
PushLine(code, line) == [code EXCEPT !.rich_text = Append(@, line)]

\* the image pattern "![" alt "](" url ")" anchored at both ends: the
\* positions p of a "](" that let it match t
ImageSplits(t) ==
    {p \in 3..(Len(t) - 2) : t[p] = "]" /\ t[p + 1] = "("}

ImageMatches(t) ==
    /\ StartsWith(t, <<"!", "[">>)
    /\ Len(t) >= 5
    /\ t[Len(t)] = ")"
    /\ ImageSplits(t) # {}

\* the greedy first group takes the last "](" that still lets the rest match
ImageBlock(t) ==
    LET p == CHOOSE q \in ImageSplits(t) : \A r \in ImageSplits(t) : r <= q
        alt == SubSeq(t, 3, p - 1)
        url == SubSeq(t, p + 2, Len(t) - 1)
    IN  [type |-> "image", url |-> url,
         caption |-> IF alt = <<>> THEN <<>> ELSE <<alt>>]

\* the backquote character (written as a token: the character itself cannot
\* stand in a TLA+ string)
BackQuote == "BQ"

\* the three-character fence token
Fence == <<BackQuote, BackQuote, BackQuote>>

\* the chain as written, for the variants below
ChainAsWritten(line) ==
    LET t == Trim(line)
    IN  IF t = <<>> THEN EmptyParagraph
        ELSE IF StartsWith(t, <<"#", " ">>) THEN RichBlock("heading_1", Substring(t, 2))
        ELSE IF StartsWith(t, <<"#", "#", " ">>) THEN RichBlock("heading_2", Substring(t, 3))
        ELSE IF StartsWith(t, <<"#", "#", "#", " ">>) THEN RichBlock("heading_3", Substring(t, 4))
        ELSE IF StartsWith(t, <<"-", " ", "[", " ", "]", " ">>) THEN ToDo(Substring(t, 6), FALSE)
        ELSE IF StartsWith(t, <<"-", " ", "[", "x", "]", " ">>) THEN ToDo(Substring(t, 6), TRUE)
        ELSE IF StartsWith(t, <<"-", " ">>) THEN RichBlock("bulleted_list_item", Substring(t, 2))
        ELSE IF StartsWith(t, <<">", " ">>) THEN RichBlock("quote", Substring(t, 2))
        ELSE IF StartsWith(t, <<"-", "-", "-">>) THEN Divider
        ELSE IF ImageMatches(t) THEN ImageBlock(t)
        ELSE RichBlock("paragraph", line)

\* variant: the bullet rule tried before the two checklist rules
ClassifyLineBulletFirst(line) ==
    IF StartsWith(Trim(line), <<"-", " ">>)
    THEN RichBlock("bulleted_list_item", Substring(Trim(line), 2))
    ELSE ChainAsWritten(line)

\* variant: the first heading rule looks at the '#' alone
ClassifyLineHashOnly(line) ==
    IF StartsWith(Trim(line), <<"#">>)
    THEN RichBlock("heading_1", Substring(Trim(line), 2))
    ELSE ChainAsWritten(line)

\* variant: the fallback paragraph carries the trimmed line
ClassifyLineTrimmedFallback(line) ==
    IF ChainAsWritten(line) = RichBlock("paragraph", line)
    THEN RichBlock("paragraph", Trim(line))
    ELSE ChainAsWritten(line)

\* variant: the heading text is cut one character early
ClassifyLineHeadingOffByOne(line) ==
    IF StartsWith(Trim(line), <<"#", " ">>)
    THEN RichBlock("heading_1", Substring(Trim(line), 1))
    ELSE ChainAsWritten(line)

\* variant: a blank line yields no block
ClassifyLineSkipBlank(line) ==
    IF Trim(line) = <<>> THEN Null ELSE ChainAsWritten(line)

\* the if / else-if chain of createBlocks for a line outside a code block
ClassifyLine(line) ==
    LET t == Trim(line)
    IN  IF t = <<>> THEN EmptyParagraph
        ELSE IF StartsWith(t, <<"#", " ">>) THEN RichBlock("heading_1", Substring(t, 2))
        ELSE IF StartsWith(t, <<"#", "#", " ">>) THEN RichBlock("heading_2", Substring(t, 3))
        ELSE IF StartsWith(t, <<"#", "#", "#", " ">>) THEN RichBlock("heading_3", Substring(t, 4))
        ELSE IF StartsWith(t, <<"-", " ", "[", " ", "]", " ">>) THEN ToDo(Substring(t, 6), FALSE)
        ELSE IF StartsWith(t, <<"-", " ", "[", "x", "]", " ">>) THEN ToDo(Substring(t, 6), TRUE)
        ELSE IF StartsWith(t, <<"-", " ">>) THEN RichBlock("bulleted_list_item", Substring(t, 2))
        ELSE IF StartsWith(t, <<">", " ">>) THEN RichBlock("quote", Substring(t, 2))
        ELSE IF StartsWith(t, <<"-", "-", "-">>) THEN Divider
        ELSE IF ImageMatches(t) THEN ImageBlock(t)
        ELSE RichBlock("paragraph", line)

\* the for loop of createBlocks from line i on, with the blocks pushed so far
\* and the open code block, then the final flush
RECURSIVE CreateBlocksLoop(_, _, _, _)
CreateBlocksLoop(lines, i, blocks, currentCodeBlock) ==
    IF i > Len(lines)
    THEN IF currentCodeBlock # Null THEN Append(blocks, currentCodeBlock) ELSE blocks
    ELSE LET line == lines[i]
             trimmedLine == Trim(line)
         IN  IF StartsWith(trimmedLine, Fence)
             THEN IF currentCodeBlock # Null
                  THEN CreateBlocksLoop(lines, i + 1, Append(blocks, currentCodeBlock), Null)
                  ELSE CreateBlocksLoop(lines, i + 1, blocks, StartCodeBlock(trimmedLine))
             ELSE IF currentCodeBlock # Null
             THEN CreateBlocksLoop(lines, i + 1, blocks, PushLine(currentCodeBlock, line))
             ELSE LET block == ClassifyLine(line)
                  IN  CreateBlocksLoop(lines, i + 1,
                                       IF block # Null THEN Append(blocks, block) ELSE blocks,
                                       Null)

\* createBlocks(content, _type); _type is never read
createBlocks(content) == CreateBlocksLoop(Split(content), 1, <<>>, Null)

\* parseBlocks(content) of create_page: the same loop, written a second time
parseBlocks(content) == CreateBlocksLoop(Split(content), 1, <<>>, Null)

\* children: content ? parseBlocks(content) : []
CreateChildren(content) == IF content = <<>> THEN <<>> ELSE parseBlocks(content)

----------------------------------------------------------------------------
(* Arguments of update_page and their validation.                           *)

Absent == "absent"

Modes == {"replace", "append", "merge"}
Positions == {"start", "end"}

\* variant: the default of the mode is append
ParseModeAppend(m) == IF m = Absent THEN "append" ELSE m

\* mode: z.enum([...]).default("replace"), and mode = "replace" in the
\* destructuring
ParseMode(m) == IF m = Absent THEN "replace" ELSE m

\* position: z.enum([...]).default("end"), and position = "end" in the
\* destructuring
ParsePosition(p) == IF p = Absent THEN "end" ELSE p

\* the markdown texts the calls of the model carry
ContentPara == <<"a">>
ContentTwo == <<"#", " ", "h", "\n", "-", " ", "[", "x", "]", " ", "t">>
Contents == {ContentPara, ContentTwo}

\* type: z.enum([...]).optional()
SchemaTypes ==
    {"paragraph", "heading_1", "heading_2", "heading_3", "bulleted_list_item",
     "numbered_list_item", "to_do", "image"}

\* the enum of type in the inputSchema of update_page's tool definition
PublishedTypes == {"paragraph", "task", "todo", "heading", "image"}

\* the id of the page of the model
PageId == "p"

\* a call that names the page and gives content a, nothing else
Plain(a) ==
    [pageId |-> PageId, content |-> a, mode |-> Absent, position |-> Absent, type |-> Absent]

\* arguments the schema refuses for another reason than their type: a mode
\* or a position outside the enums, no pageId, no content
Malformed ==
    {[Plain(ContentPara) EXCEPT !.mode = "overwrite"],
     [Plain(ContentPara) EXCEPT !.position = "middle"],
     [content |-> ContentPara, mode |-> Absent, position |-> Absent, type |-> Absent],
     [pageId |-> PageId, mode |-> Absent, position |-> Absent, type |-> Absent]}

\* calls with every mode and position and no type, calls with each type of
\* the tool definition, and the malformed ones
Args ==
    [pageId : {PageId}, content : Contents, mode : Modes \cup {Absent},
     position : Positions \cup {Absent}, type : {Absent}]
    \cup {[Plain(ContentPara) EXCEPT !.type = t] : t \in PublishedTypes}
    \cup Malformed

\* schemas.toolInputs.updatePage.parse(args) does not throw
ValidArgs(a) ==
    /\ {"pageId", "content"} \subseteq DOMAIN a
    /\ a.type \in SchemaTypes \cup {Absent}
    /\ a.mode \in Modes \cup {Absent}
    /\ a.position \in Positions \cup {Absent}

\* what parentPageId names in the store
ParentKinds == {"database", "page", "nothing"}

\* an optional argument: not given, or given with value x
None == <<>>
Some(x) == <<x>>

TitleText == <<"t">>
Properties == [Name |-> <<"n">>]

\* the markdown texts given to create_page
CreateContents == {<<>>, <<"\n">>, ContentPara, ContentTwo}

CreateArgs ==
    [title : {None, Some(TitleText)}, content : CreateContents, parent : ParentKinds,
     properties : {None, Some(Properties)}]

NoCreateArgs == [title |-> None, content |-> <<>>, parent |-> "nothing", properties |-> None]

\* const pageProperties = isDatabase ? properties : {title: ...}, with
\* content: title || ""
PageProperties(isDatabase, a) ==
    IF isDatabase THEN a.properties
    ELSE Some([title |-> IF a.title = None THEN <<>> ELSE a.title[1]])

\* parent: isDatabase ? {type: "database_id", ...} : {type: "page_id", ...}
ParentOf(isDatabase) == IF isDatabase THEN "database_id" ELSE "page_id"

----------------------------------------------------------------------------
(* Reconciliation inside update_page.                                       *)

\* variant: the delete loop starts at the second block
DeleteTargetsSkipFirst(mode, backup) ==
    IF (mode = "replace" \/ mode = "merge") /\ backup # <<>> THEN Tail(backup) ELSE <<>>

\* variant: the delete loop runs whatever the mode
DeleteTargetsAnyMode(mode, backup) == backup

\* the blocks the delete loop visits: for (const block of backup), run only
\* if mode is replace or merge
DeleteTargets(mode, backup) ==
    IF mode = "replace" \/ mode = "merge" THEN backup ELSE <<>>

\* variant: the two orders of the merge exchanged
AppendChildrenSwapped(mode, position, backup, newBlocks) ==
    IF mode = "merge"
    THEN IF position = "start" THEN backup \o newBlocks ELSE newBlocks \o backup
    ELSE newBlocks

\* variant: the position read before the mode
AppendChildrenPositionFirst(mode, position, backup, newBlocks) ==
    IF position = "start" THEN newBlocks \o backup
    ELSE IF mode = "merge" THEN backup \o newBlocks ELSE newBlocks

\* the children of the append call
AppendChildren(mode, position, backup, newBlocks) ==
    IF mode = "merge"
    THEN IF position = "start" THEN newBlocks \o backup ELSE backup \o newBlocks
    ELSE newBlocks

----------------------------------------------------------------------------
(* The content store holding the page, and the handlers.                    *)

Callers == {1, 2}

VARIABLES
    page,     \* the page's blocks in the store, each [id, block]
    nextId,   \* the identity the store gives to the next block it creates
    call,     \* per caller, the update_page invocation it runs
    log,      \* per caller, the store requests its invocation issued so far
    seen,     \* what the last read_page got from the store
    calls,    \* update_page calls started
    run,      \* the invocation of createBlocks under way, line by line
    firstRun, \* the text and the result of the first invocation that returned
    create    \* the create_page invocation and the store requests it issued

vars == <<page, nextId, call, log, seen, calls, run, firstRun, create>>

\* a block that is on the page before any call; the i-th has a text of its own
ExistingBlock(i) == RichBlock("paragraph", [k \in 1..i |-> "e"])

\* no invocation of createBlocks yet
IdleRun == [pc |-> "idle", text |-> <<>>, lines |-> <<>>, i |-> 1, blocks |-> <<>>,
            currentCodeBlock |-> Null, n |-> 0, source |-> <<>>]

NoFirst == [set |-> FALSE, text |-> <<>>, blocks |-> <<>>]

NoArgs == Plain(<<>>)

\* no invocation of create_page yet
IdleCreate == [pc |-> "idle", args |-> NoCreateArgs, isDatabase |-> FALSE, log |-> <<>>,
               result |-> "none", n |-> 0, made |-> 0]

Idle == [pc |-> "idle", args |-> NoArgs, mode |-> "replace", position |-> "end",
         content |-> <<>>, backup |-> <<>>, deleted |-> 0, result |-> "none"]

Init ==
    /\ \E n \in 0..MaxExisting :
          /\ page = [i \in 1..n |-> [id |-> i, block |-> ExistingBlock(i)]]
          /\ nextId = n + 1
    /\ call = [c \in Callers |-> Idle]
    /\ log = [c \in Callers |-> <<>>]
    /\ seen = [ok |-> FALSE, blocks |-> <<>>]
    /\ calls = 0
    /\ run = IdleRun
    /\ firstRun = NoFirst
    /\ create = IdleCreate

\* what the store keeps of a child of an append request: a child taken from a
\* list response is stored as a new block with the same content
BlockOf(child) == IF "id" \in DOMAIN child THEN child.block ELSE child

Stored(children, first) ==
    [i \in 1..Len(children) |-> [id |-> first + i - 1, block |-> BlockOf(children[i])]]

\* the page without the block of identity id
RECURSIVE Without(_, _)
Without(blocks, id) ==
    IF blocks = <<>> THEN <<>>
    ELSE IF Head(blocks).id = id THEN Without(Tail(blocks), id)
    ELSE <<Head(blocks)>> \o Without(Tail(blocks), id)

\* the caller whose client waits for each response before its next request
Sequential == CHOOSE c \in Callers : \A d \in Callers : c <= d

\* update_page entered: the arguments are parsed and the defaults applied
Begin(c, a) ==
    /\ call[c].pc \in {"idle", "done"}
    /\ calls < MaxCalls
    /\ ValidArgs(a)
    /\ calls' = calls + 1
    /\ call' = [call EXCEPT ![c] =
                   [pc |-> "list", args |-> a, mode |-> ParseMode(a.mode),
                    position |-> ParsePosition(a.position), content |-> a.content,
                    backup |-> <<>>, deleted |-> 0, result |-> "none"]]
    /\ log' = [log EXCEPT ![c] = <<>>]
    /\ UNCHANGED <<create, run, firstRun, page, nextId, seen>>

\* variant: the arguments are checked inside the try block, after the list
RejectedAfterList(c, a) ==
    /\ call[c].pc \in {"idle", "done"}
    /\ calls < MaxCalls
    /\ ~ValidArgs(a)
    /\ calls' = calls + 1
    /\ call' = [call EXCEPT ![c] = [Idle EXCEPT !.pc = "done", !.args = a, !.result = "error"]]
    /\ log' = [log EXCEPT ![c] = <<[op |-> "list", ok |-> TRUE]>>]
    /\ UNCHANGED <<create, run, firstRun, page, nextId, seen>>

\* update_page entered with arguments the schema refuses: parse throws before
\* the try block, and the dispatcher rethrows
Rejected(c, a) ==
    /\ call[c].pc \in {"idle", "done"}
    /\ calls < MaxCalls
    /\ ~ValidArgs(a)
    /\ calls' = calls + 1
    /\ call' = [call EXCEPT ![c] = [Idle EXCEPT !.pc = "done", !.args = a, !.result = "thrown"]]
    /\ log' = [log EXCEPT ![c] = <<>>]
    /\ UNCHANGED <<create, run, firstRun, page, nextId, seen>>

\* a request of the client that waits for each response before its next
\* request: no other invocation is under way
Request(c, a) == c = Sequential /\ (Begin(c, a) \/ Rejected(c, a))

\* a request the dispatcher takes while another invocation is suspended at an
\* await
OverlappedRequest(c, a) == Begin(c, a) \/ Rejected(c, a)

\* variant: the catch block returns the success text
FailedReportsSuccess(inv) == [inv EXCEPT !.pc = "done", !.result = "success"]

\* the invocation ends with the error text of the catch block
Failed(inv) == [inv EXCEPT !.pc = "done", !.result = "error"]

\* notion.blocks.children.list answers: backup = blocks.results
ListOk(c) ==
    /\ call[c].pc = "list"
    /\ log' = [log EXCEPT ![c] = Append(@, [op |-> "list", ok |-> TRUE])]
    /\ call' = [call EXCEPT ![c] =
                   [@ EXCEPT !.backup = page,
                             !.pc = IF DeleteTargets(call[c].mode, page) # <<>>
                                    THEN "delete" ELSE "append"]]
    /\ UNCHANGED <<create, run, firstRun, page, nextId, seen, calls>>

\* notion.blocks.children.list throws
ListFail(c) ==
    /\ call[c].pc = "list"
    /\ log' = [log EXCEPT ![c] = Append(@, [op |-> "list", ok |-> FALSE])]
    /\ call' = [call EXCEPT ![c] = Failed(@)]
    /\ UNCHANGED <<create, run, firstRun, page, nextId, seen, calls>>

\* the block the delete loop is at
NextTarget(c) == DeleteTargets(call[c].mode, call[c].backup)[call[c].deleted + 1]

\* variant: the loop is left after the first delete
DeleteOkLeavesLoop(c) ==
    /\ call[c].pc = "delete"
    /\ log' = [log EXCEPT ![c] = Append(@, [op |-> "delete", id |-> NextTarget(c).id, ok |-> TRUE])]
    /\ page' = Without(page, NextTarget(c).id)
    /\ call' = [call EXCEPT ![c] = [@ EXCEPT !.deleted = @ + 1, !.pc = "append"]]
    /\ UNCHANGED <<create, run, firstRun, nextId, seen, calls>>

\* notion.blocks.delete of the next block succeeds
DeleteOk(c) ==
    /\ call[c].pc = "delete"
    /\ log' = [log EXCEPT ![c] = Append(@, [op |-> "delete", id |-> NextTarget(c).id, ok |-> TRUE])]
    /\ page' = Without(page, NextTarget(c).id)
    /\ call' = [call EXCEPT ![c] =
                   [@ EXCEPT !.deleted = @ + 1,
                             !.pc = IF call[c].deleted + 1 = Len(DeleteTargets(call[c].mode, call[c].backup))
                                    THEN "append" ELSE "delete"]]
    /\ UNCHANGED <<create, run, firstRun, nextId, seen, calls>>

\* variant: a delete that throws is passed over and the loop goes on
DeleteFailContinues(c) ==
    /\ call[c].pc = "delete"
    /\ log' = [log EXCEPT ![c] = Append(@, [op |-> "delete", id |-> NextTarget(c).id, ok |-> FALSE])]
    /\ call' = [call EXCEPT ![c] =
                   [@ EXCEPT !.deleted = @ + 1,
                             !.pc = IF call[c].deleted + 1 = Len(DeleteTargets(call[c].mode, call[c].backup))
                                    THEN "append" ELSE "delete"]]
    /\ UNCHANGED <<create, run, firstRun, page, nextId, seen, calls>>

\* notion.blocks.delete of the next block throws: the loop is left
DeleteFail(c) ==
    /\ call[c].pc = "delete"
    /\ log' = [log EXCEPT ![c] = Append(@, [op |-> "delete", id |-> NextTarget(c).id, ok |-> FALSE])]
    /\ call' = [call EXCEPT ![c] = Failed(@)]
    /\ UNCHANGED <<create, run, firstRun, page, nextId, seen, calls>>

\* the children update_page hands to notion.blocks.children.append
Children(c) ==
    AppendChildren(call[c].mode, call[c].position, call[c].backup, createBlocks(call[c].content))

\* notion.blocks.children.append succeeds: the success text is returned
AppendOk(c) ==
    /\ call[c].pc = "append"
    /\ log' = [log EXCEPT ![c] = Append(@, [op |-> "append", children |-> Children(c), ok |-> TRUE])]
    /\ page' = page \o Stored(Children(c), nextId)
    /\ nextId' = nextId + Len(Children(c))
    /\ call' = [call EXCEPT ![c] = [@ EXCEPT !.pc = "done", !.result = "success"]]
    /\ UNCHANGED <<create, run, firstRun, seen, calls>>

\* variant: the catch block swallows the fault and the success text is returned
AppendFailSwallowed(c) ==
    /\ call[c].pc = "append"
    /\ log' = [log EXCEPT ![c] = Append(@, [op |-> "append", children |-> Children(c), ok |-> FALSE])]
    /\ call' = [call EXCEPT ![c] = [@ EXCEPT !.pc = "done", !.result = "success"]]
    /\ UNCHANGED <<create, run, firstRun, page, nextId, seen, calls>>

\* notion.blocks.children.append throws: rethrown by the inner catch, turned
\* into the error text by the outer one
AppendFail(c) ==
    /\ call[c].pc = "append"
    /\ log' = [log EXCEPT ![c] = Append(@, [op |-> "append", children |-> Children(c), ok |-> FALSE])]
    /\ call' = [call EXCEPT ![c] = Failed(@)]
    /\ UNCHANGED <<create, run, firstRun, page, nextId, seen, calls>>

\* read_page lists the page's blocks and renders them
ReadPage ==
    /\ seen' = [ok |-> TRUE, blocks |-> page]
    /\ UNCHANGED <<create, run, firstRun, page, nextId, call, log, calls>>

\* read_page's list or retrieve throws: the error text is returned
ReadPageFail ==
    /\ seen' = [ok |-> FALSE, blocks |-> <<>>]
    /\ UNCHANGED <<create, run, firstRun, page, nextId, call, log, calls>>

Step(c) ==
    \/ ListOk(c)
    \/ ListFail(c)
    \/ DeleteOk(c)
    \/ DeleteFail(c)
    \/ AppendOk(c)
    \/ AppendFail(c)

Next ==
    \/ \E c \in Callers, a \in Args : Request(c, a)
    \/ \E c \in Callers : Step(c)
    \/ ReadPage
    \/ ReadPageFail

Spec == Init /\ [][Next]_vars

NextConc ==
    \/ \E c \in Callers, a \in Args : OverlappedRequest(c, a)
    \/ \E c \in Callers : Step(c)
    \/ ReadPage
    \/ ReadPageFail

SpecConc == Init /\ [][NextConc]_vars

----------------------------------------------------------------------------
(* createBlocks line by line: one step per iteration of its for loop.       *)

\* lines of every kind the if / else-if chain tells apart
LineBlank == <<>>
LinePara == <<" ", "a", " ">>
LineHash == <<"#", "h">>
LineH1 == <<"#", " ", "h">>
LineH2 == <<"#", "#", " ", "h">>
LineH3 == <<"#", "#", "#", " ", "h">>
LineToDo == <<"-", " ", "[", " ", "]", " ", "t">>
LineDone == <<" ", "-", " ", "[", "x", "]", " ", "t">>
LineBullet == <<"-", " ", "b">>
LineQuote == <<">", " ", "q">>
LineDivider == <<"-", "-", "-">>
LineImage == <<"!", "[", "c", "]", "(", "u", ")">>
LineFence == Fence
LineFenceJs == <<" ">> \o Fence \o <<" ", "j", " ">>

LineSamples ==
    {LineBlank, LinePara, LineHash, LineH1, LineH2, LineH3, LineToDo, LineDone,
     LineBullet, LineQuote, LineDivider, LineImage, LineFence, LineFenceJs}

\* the lines the longer texts are made of
FenceSamples == {LineBlank, LinePara, LineH1, LineFence, LineFenceJs}

\* lines.join('\n'), the inverse of split
RECURSIVE Join(_)
Join(lines) ==
    IF lines = <<>> THEN <<>>
    ELSE IF Len(lines) = 1 THEN lines[1]
    ELSE lines[1] \o <<"\n">> \o Join(Tail(lines))

TextsOver(samples, max) ==
    {Join(ls) : ls \in UNION {[1..k -> samples] : k \in 1..max}}

\* the content strings given to createBlocks
Texts == TextsOver(LineSamples, MaxShort) \cup TextsOver(FenceSamples, MaxLines)

\* the content strings of the repeated invocations
AgainTexts == TextsOver({LinePara, LineFence}, MaxShort)

\* variant: the open code block is kept from the invocation before
EnteredKeepingFence(prev, t) ==
    [prev EXCEPT !.pc = "loop", !.text = t, !.lines = Split(t), !.i = 1,
                 !.blocks = <<>>, !.n = @ + 1]

\* createBlocks entered with content t: lines, blocks and currentCodeBlock are
\* locals, set anew
Entered(prev, t) ==
    [prev EXCEPT !.pc = "loop", !.text = t, !.lines = Split(t), !.i = 1,
                 !.blocks = <<>>, !.currentCodeBlock = Null, !.n = @ + 1]

UpdateVars == <<page, nextId, call, log, seen, calls>>

InLoop == run.pc = "loop" /\ run.i <= Len(run.lines)
Line == run.lines[run.i]
IsFenceLine(line) == StartsWith(Trim(line), Fence)

\* createBlocks is called once more
Invoke(t) ==
    /\ run.pc \in {"idle", "returned"}
    /\ run.n < MaxInvocations
    /\ run' = Entered(run, t)
    /\ UNCHANGED <<firstRun, create, UpdateVars>>

\* variant: a closed code block is put ahead of the blocks pushed so far
FenceLineFront ==
    /\ InLoop
    /\ IsFenceLine(Line)
    /\ run' = IF run.currentCodeBlock # Null
              THEN [run EXCEPT !.blocks = <<run.currentCodeBlock>> \o @,
                               !.currentCodeBlock = Null, !.i = @ + 1]
              ELSE [run EXCEPT !.currentCodeBlock = StartCodeBlock(Trim(Line)),
                               !.i = @ + 1]
    /\ UNCHANGED <<firstRun, create, UpdateVars>>

\* the line starts with the fence token: a code block is opened or closed
FenceLine ==
    /\ InLoop
    /\ IsFenceLine(Line)
    /\ run' = IF run.currentCodeBlock # Null
              THEN [run EXCEPT !.blocks = Append(@, run.currentCodeBlock),
                               !.currentCodeBlock = Null, !.i = @ + 1]
              ELSE [run EXCEPT !.currentCodeBlock = StartCodeBlock(Trim(Line)),
                               !.i = @ + 1]
    /\ UNCHANGED <<firstRun, create, UpdateVars>>

\* variant: a line inside a code block also goes through the chain
CodeLineEmits ==
    /\ InLoop
    /\ ~IsFenceLine(Line)
    /\ run.currentCodeBlock # Null
    /\ run' = [run EXCEPT !.currentCodeBlock = PushLine(@, Line),
                          !.blocks = Append(@, ClassifyLine(Line)), !.i = @ + 1]
    /\ UNCHANGED <<firstRun, create, UpdateVars>>

\* a line while a code block is open
CodeLine ==
    /\ InLoop
    /\ ~IsFenceLine(Line)
    /\ run.currentCodeBlock # Null
    /\ run' = [run EXCEPT !.currentCodeBlock = PushLine(@, Line), !.i = @ + 1]
    /\ UNCHANGED <<firstRun, create, UpdateVars>>

\* a line outside a code block: the if / else-if chain, then blocks.push
PlainLine ==
    /\ InLoop
    /\ ~IsFenceLine(Line)
    /\ run.currentCodeBlock = Null
    /\ run' = [run EXCEPT !.blocks = IF ClassifyLine(Line) # Null
                                     THEN Append(@, ClassifyLine(Line)) ELSE @,
                          !.i = @ + 1]
    /\ UNCHANGED <<firstRun, create, UpdateVars>>

\* variant: a code block still open at the end is dropped
ReturnWithoutFlush ==
    /\ run.pc = "loop"
    /\ run.i > Len(run.lines)
    /\ run' = [run EXCEPT !.pc = "returned"]
    /\ firstRun' = IF firstRun.set THEN firstRun
                   ELSE [set |-> TRUE, text |-> run.text, blocks |-> run'.blocks]
    /\ UNCHANGED <<create, UpdateVars>>

\* the loop is over: a code block still open is pushed, blocks is returned
Return ==
    /\ run.pc = "loop"
    /\ run.i > Len(run.lines)
    /\ run' = [run EXCEPT !.pc = "returned",
                          !.blocks = IF run.currentCodeBlock # Null
                                     THEN Append(@, run.currentCodeBlock) ELSE @]
    /\ firstRun' = IF firstRun.set THEN firstRun
                   ELSE [set |-> TRUE, text |-> run.text, blocks |-> run'.blocks]
    /\ UNCHANGED <<create, UpdateVars>>

InitUpdateIdle ==
    /\ create = IdleCreate
    /\ page = <<>>
    /\ nextId = 1
    /\ call = [c \in Callers |-> Idle]
    /\ log = [c \in Callers |-> <<>>]
    /\ seen = [ok |-> FALSE, blocks |-> <<>>]
    /\ calls = 0

\* one invocation of createBlocks on a text of Texts
InitLines ==
    /\ InitUpdateIdle
    /\ \E t \in Texts : run = Entered(IdleRun, t)
    /\ firstRun = NoFirst

NextLines ==
    \/ FenceLine
    \/ CodeLine
    \/ PlainLine
    \/ Return

SpecLines == InitLines /\ [][NextLines]_vars

\* the loop is synchronous: an iteration that can run does run
FairLines == SpecLines /\ WF_vars(NextLines)

\* invocations of createBlocks one after the other
InitAgain ==
    /\ InitUpdateIdle
    /\ run = IdleRun
    /\ firstRun = NoFirst

NextAgain ==
    \/ \E t \in AgainTexts : Invoke(t)
    \/ FenceLine
    \/ CodeLine
    \/ PlainLine
    \/ Return

SpecAgain == InitAgain /\ [][NextAgain]_vars

----------------------------------------------------------------------------
(* create_page.                                                             *)

Others == <<page, nextId, call, log, seen, calls, run, firstRun>>

\* create_page entered; args is not parsed (args as any)
CreateBegin(a) ==
    /\ create.pc \in {"idle", "done"}
    /\ create.n < MaxCreates
    /\ create' = [create EXCEPT !.pc = "database", !.args = a, !.isDatabase = FALSE,
                                !.log = <<>>, !.result = "none", !.n = @ + 1]
    /\ UNCHANGED Others

\* notion.databases.retrieve answers: the parent is a database
DatabaseRetrieveOk ==
    /\ create.pc = "database"
    /\ create.args.parent = "database"
    /\ create' = [create EXCEPT !.pc = "create", !.isDatabase = TRUE,
                                !.log = Append(@, [op |-> "databases.retrieve", ok |-> TRUE])]
    /\ UNCHANGED Others

\* notion.databases.retrieve throws (no such database, or a fault): the
\* inner catch goes on to the page
DatabaseRetrieveFail ==
    /\ create.pc = "database"
    /\ create' = [create EXCEPT !.pc = "page",
                                !.log = Append(@, [op |-> "databases.retrieve", ok |-> FALSE])]
    /\ UNCHANGED Others

\* notion.pages.retrieve answers: the parent is a page
PageRetrieveOk ==
    /\ create.pc = "page"
    /\ create.args.parent = "page"
    /\ create' = [create EXCEPT !.pc = "create",
                                !.log = Append(@, [op |-> "pages.retrieve", ok |-> TRUE])]
    /\ UNCHANGED Others

\* variant: a page retrieval that throws is passed over
PageRetrieveFailContinues ==
    /\ create.pc = "page"
    /\ create' = [create EXCEPT !.pc = "create",
                                !.log = Append(@, [op |-> "pages.retrieve", ok |-> FALSE])]
    /\ UNCHANGED Others

\* notion.pages.retrieve throws inside the inner catch: the outer catch
\* returns the error text
PageRetrieveFail ==
    /\ create.pc = "page"
    /\ create' = [create EXCEPT !.pc = "done", !.result = "error",
                                !.log = Append(@, [op |-> "pages.retrieve", ok |-> FALSE])]
    /\ UNCHANGED Others

\* the request create_page hands to notion.pages.create
CreateRequest(ok) ==
    [op |-> "pages.create", ok |-> ok,
     parent |-> ParentOf(create.isDatabase),
     properties |-> PageProperties(create.isDatabase, create.args),
     children |-> CreateChildren(create.args.content)]

\* notion.pages.create answers: the success text with the new page's id
PagesCreateOk ==
    /\ create.pc = "create"
    /\ create' = [create EXCEPT !.pc = "done", !.result = "success", !.made = @ + 1,
                                !.log = Append(@, CreateRequest(TRUE))]
    /\ UNCHANGED Others

\* notion.pages.create throws: the error text
PagesCreateFail ==
    /\ create.pc = "create"
    /\ create' = [create EXCEPT !.pc = "done", !.result = "error",
                                !.log = Append(@, CreateRequest(FALSE))]
    /\ UNCHANGED Others

InitCreate ==
    /\ InitUpdateIdle
    /\ run = IdleRun
    /\ firstRun = NoFirst

NextCreate ==
    \/ \E a \in CreateArgs : CreateBegin(a)
    \/ DatabaseRetrieveOk
    \/ DatabaseRetrieveFail
    \/ PageRetrieveOk
    \/ PageRetrieveFail
    \/ PagesCreateOk
    \/ PagesCreateFail

SpecCreate == InitCreate /\ [][NextCreate]_vars

----------------------------------------------------------------------------
(* The try block of update_page with createBlocks taken line by line.       *)

\* a replace of the sequential client on content t, its list answered with an
\* empty page, about to call createBlocks(t)
ReplaceOf(t) ==
    [pc |-> "append", args |-> Plain(t), mode |-> ParseMode(Absent),
     position |-> ParsePosition(Absent), content |-> t, backup |-> <<>>, deleted |-> 0,
     result |-> "none"]

\* createBlocks has returned and its result goes to notion.blocks.children.append,
\* which succeeds
AppendTranspiled(c) ==
    /\ call[c].pc = "append"
    /\ run.pc = "returned"
    /\ run.text = call[c].content
    /\ LET children == AppendChildren(call[c].mode, call[c].position, call[c].backup, run.blocks)
       IN  /\ log' = [log EXCEPT ![c] = Append(@, [op |-> "append", children |-> children, ok |-> TRUE])]
           /\ page' = page \o Stored(children, nextId)
           /\ nextId' = nextId + Len(children)
    /\ call' = [call EXCEPT ![c] = [@ EXCEPT !.pc = "done", !.result = "success"]]
    /\ UNCHANGED <<create, run, firstRun, seen, calls>>

InitReplace ==
    /\ \E t \in Texts :
          /\ call = [c \in Callers |-> IF c = Sequential THEN ReplaceOf(t) ELSE Idle]
          /\ run = Entered(IdleRun, t)
    /\ log = [c \in Callers |-> IF c = Sequential THEN <<[op |-> "list", ok |-> TRUE]>> ELSE <<>>]
    /\ page = <<>>
    /\ nextId = Len(page) + 1
    /\ calls = 1
    /\ seen = [ok |-> FALSE, blocks |-> <<>>]
    /\ firstRun = NoFirst
    /\ create = IdleCreate

NextReplace ==
    \/ FenceLine
    \/ CodeLine
    \/ PlainLine
    \/ Return
    \/ \E c \in Callers : AppendTranspiled(c)

SpecReplace == InitReplace /\ [][NextReplace]_vars

\* the two ways createBlocks is modelled agree
LoopIsCreateBlocks == run.pc = "returned" => run.blocks = createBlocks(run.text)

----------------------------------------------------------------------------
(* What an invocation has issued and what the page holds.                   *)

Deletes(c) == SelectSeq(log[c], LAMBDA r : r.op = "delete")
Appends(c) == SelectSeq(log[c], LAMBDA r : r.op = "append")

Ids(blocks) == [i \in 1..Len(blocks) |-> blocks[i].id]
BlocksOf(blocks) == [i \in 1..Len(blocks) |-> blocks[i].block]

\* the existing sequence E the invocation listed, and its new blocks N
E(c) == call[c].backup
N(c) == createBlocks(call[c].content)

Listed(c) == call[c].pc \in {"delete", "append", "done"} /\ log[c] # <<>> /\ log[c][1].ok
AppendIssued(c) == Appends(c) # <<>>
Succeeded(c) == call[c].pc = "done" /\ call[c].result = "success"

\* the deletes issued so far are those of the first blocks of E, in E's order,
\* and by the time the append is due every block of E got its delete
DeletesAllOf(c) ==
    /\ Len(Deletes(c)) <= Len(E(c))
    /\ Ids(Deletes(c)) = SubSeq(Ids(E(c)), 1, Len(Deletes(c)))
    /\ (call[c].pc = "append" \/ AppendIssued(c)) =>
          /\ Len(Deletes(c)) = Len(E(c))
          /\ \A i \in 1..Len(Deletes(c)) : Deletes(c)[i].ok

\* at most one append was issued, and it carries children
AppendCarries(c, children) ==
    /\ Len(Appends(c)) <= 1
    /\ \A i \in 1..Len(Appends(c)) : Appends(c)[i].children = children

----------------------------------------------------------------------------
(* Reconciliation policies.                                                 *)

\* C1: under policy replace every block of the listed sequence E gets a
\* delete, the one append carries exactly N = createBlocks(content), and after
\* a run without fault the page holds exactly N.
ReplaceDeletesAllAppendsNew ==
    \A c \in Callers :
        (call[c].args.mode = "replace" /\ Listed(c)) =>
            /\ DeletesAllOf(c)
            /\ AppendCarries(c, N(c))
            /\ Succeeded(c) => BlocksOf(page) = N(c)

ReplaceRan ==
    \E c \in Callers :
        /\ call[c].args.mode = "replace" /\ Succeeded(c)
        /\ Len(E(c)) = 2 /\ Len(Deletes(c)) = 2
        /\ BlocksOf(page) = N(c) /\ Len(N(c)) = 2

\* C2: under policy merge with position start every block of E gets a delete
\* and the one append carries N followed by E in E's order.
MergeStartAppendsNewThenExisting ==
    \A c \in Callers :
        (call[c].args.mode = "merge" /\ call[c].args.position = "start" /\ Listed(c)) =>
            /\ DeletesAllOf(c)
            /\ AppendCarries(c, N(c) \o E(c))

MergeStartRan ==
    \E c \in Callers :
        /\ call[c].args.mode = "merge" /\ call[c].args.position = "start"
        /\ Succeeded(c) /\ Len(E(c)) = 2 /\ Len(Deletes(c)) = 2
        /\ BlocksOf(page) = N(c) \o BlocksOf(E(c))

\* C3: under policy merge with position end every block of E gets a delete
\* and the one append carries E in E's order followed by N.
MergeEndAppendsExistingThenNew ==
    \A c \in Callers :
        (call[c].args.mode = "merge" /\ call[c].args.position = "end" /\ Listed(c)) =>
            /\ DeletesAllOf(c)
            /\ AppendCarries(c, E(c) \o N(c))

MergeEndRan ==
    \E c \in Callers :
        /\ call[c].args.mode = "merge" /\ call[c].args.position = "end"
        /\ Succeeded(c) /\ Len(E(c)) = 2 /\ Len(Deletes(c)) = 2
        /\ BlocksOf(page) = BlocksOf(E(c)) \o N(c)

\* C4: under policy append no delete is ever issued, the one append carries
\* exactly N, and in every state of the call the blocks listed are still on
\* the page, in their order and ahead of the new content.
AppendKeepsExisting ==
    \A c \in Callers :
        call[c].args.mode = "append" =>
            /\ Deletes(c) = <<>>
            /\ AppendCarries(c, N(c))
            /\ Listed(c) =>
                  /\ Len(page) >= Len(E(c))
                  /\ SubSeq(page, 1, Len(E(c))) = E(c)
            /\ Succeeded(c) =>
                  BlocksOf(SubSeq(page, Len(E(c)) + 1, Len(page))) = N(c)

AppendRan ==
    \E c \in Callers :
        /\ call[c].args.mode = "append" /\ Succeeded(c)
        /\ Len(E(c)) = 2 /\ Len(page) = Len(E(c)) + Len(N(c))

----------------------------------------------------------------------------
(* Faults of the store during the update.                                   *)

SomeDeleteDone(c) == \E i \in 1..Len(Deletes(c)) : Deletes(c)[i].ok
AppendDone(c) == \E i \in 1..Len(Appends(c)) : Appends(c)[i].ok

\* C5: an invocation in which a delete succeeded and no append succeeded
\* never returns the success text.
LossIsNotSuccess ==
    \A c \in Callers :
        (call[c].pc = "done" /\ SomeDeleteDone(c) /\ ~AppendDone(c)) =>
            call[c].result = "error"

LossReported ==
    \E c \in Callers :
        /\ call[c].pc = "done" /\ call[c].result = "error"
        /\ Len(E(c)) = 2 /\ Len(Deletes(c)) = 2 /\ Deletes(c)[2].ok
        /\ AppendIssued(c) /\ ~AppendDone(c)

\* the delete phase went through and the append that followed failed
AppendLost(c) ==
    /\ call[c].pc = "done"
    /\ call[c].mode \in {"replace", "merge"}
    /\ E(c) # <<>>
    /\ AppendIssued(c) /\ ~Appends(c)[1].ok

\* C6: when the deletes of a replace or merge succeeded and the append
\* failed, a second append carrying the sequence captured by the list is
\* issued before the invocation returns.
FailedAppendCompensated ==
    \A c \in Callers :
        AppendLost(c) =>
            /\ Len(Appends(c)) >= 2
            /\ Appends(c)[2].children = E(c)

\* between the answer of its list and the completion of its append
InUpdate(c) == call[c].pc \in {"delete", "append"}

\* C7: while one invocation is between its list and the completion of its
\* append, no other invocation issues a store request for the page.
UpdatesSerialized ==
    [][\A c, d \in Callers :
          (c # d /\ InUpdate(c)) => Len(log'[d]) <= Len(log[d])]_vars

\* the deletes of a replace or merge are done and the append is pending
InGap(c) ==
    /\ call[c].pc = "append"
    /\ call[c].mode \in {"replace", "merge"}
    /\ E(c) # <<>>

\* C8: a read_page taken after the last delete of a replace or merge and
\* before its append gets a page with no block at all, neither an original
\* one nor a new one.
ReaderSeesEmptyPage ==
    [][((\E c \in Callers : InGap(c)) /\ ReadPage) =>
          (seen'.ok /\ seen'.blocks = <<>> /\ page = <<>>)]_vars

\* the first call of the behaviour is in the gap, so the page held E until
\* its last delete, and the read came after that
EmptyPageSeen ==
    \E c \in Callers :
        /\ calls = 1 /\ InGap(c) /\ Len(E(c)) = 2
        /\ seen.ok /\ seen.blocks = <<>>

----------------------------------------------------------------------------
(* Defaults of the arguments.                                               *)

PositionIgnoredUnlessMerge ==
    \A c \in Callers :
        (call[c].mode \in {"replace", "append"} /\ Listed(c)) =>
            \A p \in Positions :
                /\ AppendCarries(c, AppendChildren(call[c].mode, p, E(c), N(c)))
                /\ Ids(Deletes(c)) =
                      SubSeq(Ids(DeleteTargets(call[c].mode, E(c))), 1, Len(Deletes(c)))

PositionStartIgnored ==
    \E c \in Callers :
        /\ call[c].args.position = "start" /\ call[c].mode \in {"replace", "append"}
        /\ Succeeded(c) /\ Len(E(c)) = 2
        /\ Appends(c)[1].children = N(c)

----------------------------------------------------------------------------
(* Code fences.                                                             *)

\* the positions of the fence-marker lines, in order
FenceSeq(lines) ==
    SelectSeq([i \in 1..Len(lines) |-> i], LAMBDA i : IsFenceLine(lines[i]))

CodeBlocks(blocks) == SelectSeq(blocks, LAMBDA b : b.type = "code")

Returned == run.pc = "returned"

\* C11: a text with exactly one fence-marker line yields exactly one code
\* block; it is pushed when the input ends, as the last block, and its text
\* segments are the lines after the marker, in order.
UnterminatedFenceFlushed ==
    Len(FenceSeq(run.lines)) = 1 =>
        /\ run.pc = "loop" => CodeBlocks(run.blocks) = <<>>
        /\ Returned =>
              /\ Len(CodeBlocks(run.blocks)) = 1
              /\ run.blocks[Len(run.blocks)].type = "code"
              /\ run.blocks[Len(run.blocks)].rich_text =
                    SubSeq(run.lines, FenceSeq(run.lines)[1] + 1, Len(run.lines))

UnterminatedFenceRan ==
    /\ Returned
    /\ Len(FenceSeq(run.lines)) = 1
    /\ Len(run.lines) = FenceSeq(run.lines)[1] + 2
    /\ Len(run.blocks[Len(run.blocks)].rich_text) = 2

\* C12: with an even number of fence-marker lines the loop ends with no code
\* block open, half as many code blocks as markers are returned, and the k-th
\* holds the lines between the (2k-1)-th and the 2k-th marker, each as one
\* untrimmed segment.
BalancedFences ==
    (Returned /\ Len(FenceSeq(run.lines)) % 2 = 0) =>
        /\ run.currentCodeBlock = Null
        /\ Len(CodeBlocks(run.blocks)) * 2 = Len(FenceSeq(run.lines))
        /\ \A k \in 1..Len(CodeBlocks(run.blocks)) :
              CodeBlocks(run.blocks)[k].rich_text =
                  SubSeq(run.lines, FenceSeq(run.lines)[2 * k - 1] + 1,
                         FenceSeq(run.lines)[2 * k] - 1)

BalancedFencesRan ==
    /\ Returned
    /\ Len(FenceSeq(run.lines)) = 2
    /\ Len(CodeBlocks(run.blocks)) = 1
    /\ CodeBlocks(run.blocks)[1].rich_text = <<LinePara, LineH1>>

----------------------------------------------------------------------------
(* The rules for a line outside a code block.                               *)

\* the loop takes a line that is no fence marker while no code block is open
PlainLineTaken ==
    /\ InLoop
    /\ ~IsFenceLine(Line)
    /\ run.currentCodeBlock = Null
    /\ run'.i = run.i + 1

Emits(block) == run'.blocks = Append(run.blocks, block)

CheckBoxOpen == <<"-", " ", "[", " ", "]", " ">>
CheckBoxDone == <<"-", " ", "[", "x", "]", " ">>

\* C13: outside a fence a line whose trimmed form starts with "- [ ] " yields
\* an unchecked to_do and one starting with "- [x] " a checked to_do, with the
\* text after the six characters; a bulleted item comes only from a "- " line
\* that has neither prefix.
ChecklistBeforeBullet ==
    [][PlainLineTaken =>
          LET t == Trim(Line)
          IN  /\ StartsWith(t, CheckBoxOpen) =>
                    Emits([type |-> "to_do", rich_text |-> <<SubSeq(t, 7, Len(t))>>,
                           checked |-> FALSE])
              /\ StartsWith(t, CheckBoxDone) =>
                    Emits([type |-> "to_do", rich_text |-> <<SubSeq(t, 7, Len(t))>>,
                           checked |-> TRUE])
              /\ (\E text \in {SubSeq(t, 3, Len(t))} :
                      Emits([type |-> "bulleted_list_item", rich_text |-> <<text>>])) <=>
                    /\ StartsWith(t, <<"-", " ">>)
                    /\ ~StartsWith(t, CheckBoxOpen)
                    /\ ~StartsWith(t, CheckBoxDone)]_vars

ChecklistRan ==
    /\ run.pc = "loop" /\ run.i = 3
    /\ run.lines[1] = LineDone /\ run.lines[2] = LineToDo
    /\ run.blocks = <<[type |-> "to_do", rich_text |-> << <<"t">> >>, checked |-> TRUE],
                      [type |-> "to_do", rich_text |-> << <<"t">> >>, checked |-> FALSE]>>

HeadingPrefix(level) == [k \in 1..level |-> "#"] \o <<" ">>
HeadingType(level) == <<"heading_1", "heading_2", "heading_3">>[level]

\* C14: outside a fence a line whose trimmed form starts with "### ", "## "
\* or "# " yields the heading of level 3, 2 or 1 with the text after that
\* prefix, and a heading of a level comes from no other line.
HeadingLevels ==
    [][PlainLineTaken =>
          \A level \in 1..3 :
              LET t == Trim(Line)
                  heading == [type |-> HeadingType(level),
                              rich_text |-> <<SubSeq(t, level + 2, Len(t))>>]
              IN  /\ StartsWith(t, HeadingPrefix(level)) => Emits(heading)
                  /\ (Len(run'.blocks) > Len(run.blocks)
                        /\ run'.blocks[Len(run'.blocks)].type = HeadingType(level))
                     => StartsWith(t, HeadingPrefix(level))]_vars

HeadingRan ==
    /\ run.pc = "loop" /\ run.i = 3
    /\ run.lines[1] = LineH3 /\ run.lines[2] = LineH2
    /\ run.blocks = <<[type |-> "heading_3", rich_text |-> << <<"h">> >>],
                      [type |-> "heading_2", rich_text |-> << <<"h">> >>]>>

\* the trimmed line has the shape "![" alt "](" url ")"
LooksLikeImage(t) ==
    /\ Len(t) >= 5
    /\ t[1] = "!" /\ t[2] = "[" /\ t[Len(t)] = ")"
    /\ \E p \in 3..(Len(t) - 2) : t[p] = "]" /\ t[p + 1] = "("

\* the trimmed line matches one of the patterns of the chain
Recognized(t) ==
    \/ \E level \in 1..3 : StartsWith(t, HeadingPrefix(level))
    \/ StartsWith(t, <<"-", " ">>)
    \/ StartsWith(t, <<">", " ">>)
    \/ StartsWith(t, <<"-", "-", "-">>)
    \/ LooksLikeImage(t)

\* C15: outside a fence a line that is not blank and matches none of the
\* patterns yields a paragraph whose text is the line itself, untrimmed.
FallbackParagraph ==
    [][(PlainLineTaken /\ Trim(Line) # <<>> /\ ~Recognized(Trim(Line))) =>
          Emits([type |-> "paragraph", rich_text |-> <<Line>>])]_vars

FallbackRan ==
    /\ run.pc = "loop" /\ run.i = 3
    /\ run.lines[1] = LinePara /\ run.lines[2] = LineHash
    /\ run.blocks = <<[type |-> "paragraph", rich_text |-> <<LinePara>>],
                      [type |-> "paragraph", rich_text |-> <<LineHash>>]>>

\* the lines that are no fence marker and stand outside every fence
PlainIdx(lines) ==
    {j \in 1..Len(lines) :
        /\ ~IsFenceLine(lines[j])
        /\ Cardinality({i \in 1..(j - 1) : IsFenceLine(lines[i])}) % 2 = 0}

OneMoreBlock ==
    /\ Len(run'.blocks) = Len(run.blocks) + 1
    /\ SubSeq(run'.blocks, 1, Len(run.blocks)) = run.blocks
    /\ run'.blocks[Len(run'.blocks)] # Null

OneBlockPerPlainLine ==
    Len(run'.blocks) =
        Cardinality(PlainIdx(run.lines)) + (Len(FenceSeq(run.lines)) + 1) \div 2

\* C16: createBlocks returns for every text, each line that is no fence
\* marker and stands outside a fence adds exactly one block to those pushed
\* before, and the result holds one block per such line besides the code
\* blocks.
EveryLineYieldsABlock ==
    /\ <>Returned
    /\ [][(PlainLineTaken => OneMoreBlock) /\ (Returned' => OneBlockPerPlainLine)]_vars

EveryLineRan ==
    /\ Returned
    /\ Len(run.lines) = 4
    /\ Len(FenceSeq(run.lines)) = 2
    /\ PlainIdx(run.lines) = {1, 4}
    /\ run.lines[1] = LineBlank
    /\ Len(run.blocks) = 3

----------------------------------------------------------------------------
(* Invocations one after the other.                                         *)

\* C17: an invocation starts with no block pushed and no code block open,
\* whatever the invocations before it left, and an invocation on the text of
\* the first one returns the blocks the first one returned.
NoStateAcrossInvocations ==
    /\ (run.pc = "loop" /\ run.i = 1) =>
          (run.currentCodeBlock = Null /\ run.blocks = <<>>)
    /\ (Returned /\ firstRun.set /\ run.text = firstRun.text) =>
          run.blocks = firstRun.blocks

SameTextAgain ==
    /\ Returned
    /\ run.n = 3
    /\ run.text = firstRun.text
    /\ Len(FenceSeq(run.lines)) = 1
    /\ run.currentCodeBlock # Null
    /\ run.blocks = firstRun.blocks

----------------------------------------------------------------------------
(* Rendering blocks back to markdown, one line per block, and reading the   *)
(* rendered text again.                                                     *)

RECURSIVE Concat(_)
Concat(segments) ==
    IF segments = <<>> THEN <<>> ELSE Head(segments) \o Concat(Tail(segments))

\* the line of a block: the prefix of its kind, then its text
RenderBlock(b) ==
    IF b.type = "divider" THEN <<"-", "-", "-">>
    ELSE LET text == Concat(b.rich_text)
         IN  CASE b.type = "paragraph" -> text
               [] b.type = "heading_1" -> <<"#", " ">> \o text
               [] b.type = "heading_2" -> <<"#", "#", " ">> \o text
               [] b.type = "heading_3" -> <<"#", "#", "#", " ">> \o text
               [] b.type = "bulleted_list_item" -> <<"-", " ">> \o text
               [] b.type = "quote" -> <<">", " ">> \o text
               [] b.type = "to_do" ->
                    (IF b.checked THEN <<"-", " ", "[", "x", "]", " ">>
                     ELSE <<"-", " ", "[", " ", "]", " ">>) \o text

Render(blocks) == Join([i \in 1..Len(blocks) |-> RenderBlock(blocks[i])])

RenderedKinds ==
    {"paragraph", "heading_1", "heading_2", "heading_3", "bulleted_list_item",
     "to_do", "quote", "divider"}

OnlyRenderedKinds(blocks) == \A i \in 1..Len(blocks) : blocks[i].type \in RenderedKinds

\* blocks of the rendered kinds, with texts of several shapes
BlockSamples ==
    {EmptyParagraph, RichBlock("paragraph", <<"a">>), RichBlock("paragraph", LineH1),
     RichBlock("heading_1", <<"h">>), RichBlock("heading_2", <<"h", " ">>),
     RichBlock("bulleted_list_item", <<"b">>), ToDo(<<"t">>, TRUE),
     RichBlock("quote", <<"q">>), Divider}

AnyBlocks == UNION {[1..k -> BlockSamples] : k \in 1..MaxShort}

\* the block sequences createBlocks returns, of the rendered kinds
TranspiledBlocks ==
    {bs \in {createBlocks(t) : t \in TextsOver(LineSamples, MaxShort)} :
        OnlyRenderedKinds(bs)}

\* createBlocks runs on the rendering of a block sequence
InitRound ==
    /\ InitUpdateIdle
    /\ \E bs \in AnyBlocks \cup TranspiledBlocks :
          run = [Entered(IdleRun, Render(bs)) EXCEPT !.source = bs]
    /\ firstRun = NoFirst

\* a rendering of these kinds holds no fence marker
NextRound ==
    \/ PlainLine
    \/ Return

SpecRound == InitRound /\ [][NextRound]_vars

\* C18 as stated: every sequence of blocks of the rendered kinds comes back
\* equal from rendering and reading again.
RoundTripOfAnyBlocks ==
    (Returned /\ OnlyRenderedKinds(run.source)) => run.blocks = run.source

\* C18: a sequence of blocks of the rendered kinds that createBlocks returned
\* for some text comes back equal from rendering and reading again.
RoundTripOfTranspiled ==
    (Returned /\ run.source \in TranspiledBlocks) => run.blocks = run.source

RoundTripRan ==
    /\ Returned
    /\ run.source \in TranspiledBlocks
    /\ run.source = <<RichBlock("heading_2", <<"h">>), ToDo(<<"t">>, TRUE)>>
    /\ run.blocks = run.source

----------------------------------------------------------------------------
(* Retries.                                                                 *)

Lists(c) == SelectSeq(log[c], LAMBDA r : r.op = "list")

\* C19: an invocation of update_page issues at most one list, at most one
\* delete per listed block and at most one append, and no store request
\* after one that failed.
NoRetry ==
    \A c \in Callers :
        /\ Len(Lists(c)) <= 1
        /\ Len(Appends(c)) <= 1
        /\ \A i, j \in 1..Len(Deletes(c)) :
              Deletes(c)[i].id = Deletes(c)[j].id => i = j
        /\ \A i \in 1..Len(Deletes(c)) : Deletes(c)[i].id \in {b.id : b \in {E(c)[k] : k \in 1..Len(E(c))}}
        /\ \A i \in 1..(Len(log[c]) - 1) : log[c][i].ok

FailedDeleteNotRetried ==
    \E c \in Callers :
        /\ call[c].pc = "done" /\ call[c].result = "error"
        /\ Len(E(c)) = 2
        /\ Len(log[c]) = 3
        /\ log[c][2].op = "delete" /\ log[c][2].ok
        /\ log[c][3].op = "delete" /\ ~log[c][3].ok

----------------------------------------------------------------------------
(* The type argument.                                                       *)

\* C20: a call whose type is one of those the tool definition of update_page
\* lists is not refused by the validation of its arguments.
PublishedTypeAccepted ==
    \A c \in Callers :
        call[c].args.type \in PublishedTypes => call[c].result # "thrown"

----------------------------------------------------------------------------
(* The fence state.                                                         *)

InsideFence == run.currentCodeBlock # Null

\* the step takes a line that is no fence marker while a code block is open
CodeLineTaken ==
    /\ InLoop
    /\ ~IsFenceLine(Line)
    /\ InsideFence
    /\ run'.i = run.i + 1

FenceStateChanges == (run'.currentCodeBlock = Null) # (run.currentCodeBlock = Null)

AppendedUntrimmed ==
    /\ run'.currentCodeBlock # Null
    /\ run'.currentCodeBlock.rich_text = Append(run.currentCodeBlock.rich_text, Line)
    /\ run'.currentCodeBlock.language = run.currentCodeBlock.language
    /\ run'.blocks = run.blocks

\* C21: a code block is opened or closed only by a step on a line whose
\* trimmed form starts with the fence token, and while a code block is open
\* every other line, whatever rule it would match outside, is appended
\* untrimmed as one more segment of the open code block and pushes no block.
FenceRuleFirst ==
    [][/\ FenceStateChanges => (InLoop /\ IsFenceLine(Line))
       /\ CodeLineTaken => AppendedUntrimmed]_vars

\* a checked checklist line with a leading blank went into the open code block
FenceRuleRan ==
    /\ run.pc = "loop"
    /\ run.currentCodeBlock # Null
    /\ run.currentCodeBlock.rich_text = <<LineDone>>
    /\ run.blocks = <<>>

----------------------------------------------------------------------------
(* The order of the store requests of one invocation.                       *)

\* the requests before the j-th are the list and then one successful delete
\* for each of the first j - 2 blocks of E, in E's order
DeletesBefore(c, j) ==
    /\ j >= 2
    /\ j - 2 <= Len(E(c))
    /\ \A i \in 2..(j - 1) :
          /\ log[c][i].op = "delete"
          /\ log[c][i].ok
          /\ log[c][i].id = E(c)[i - 1].id

\* C22: in replace and merge every append comes after a successful delete of
\* each block of E, the deletes come one after the other in E's order, each
\* after the one before it succeeded, and no append stands before or between
\* deletes.
AppendAfterAllDeletes ==
    \A c \in Callers :
        call[c].mode \in {"replace", "merge"} =>
            \A j \in 1..Len(log[c]) :
                /\ log[c][j].op = "append" =>
                      (j = Len(E(c)) + 2 /\ DeletesBefore(c, j))
                /\ log[c][j].op = "delete" =>
                      (DeletesBefore(c, j) /\ log[c][j].id = E(c)[j - 1].id)

AppendAfterAllDeletesRan ==
    \E c \in Callers :
        /\ call[c].mode = "merge" /\ call[c].pc = "done"
        /\ Len(E(c)) = 2 /\ Len(log[c]) = 4
        /\ log[c][2].op = "delete" /\ log[c][3].op = "delete"
        /\ log[c][4].op = "append"

----------------------------------------------------------------------------
(* The order of the blocks returned.                                        *)

\* the fence-marker lines that open a code block
OpeningIdx(lines) ==
    {FenceSeq(lines)[k] : k \in {h \in 1..Len(FenceSeq(lines)) : h % 2 = 1}}

\* the lines a block comes from, in the order of the text
SourceSeq(lines) ==
    SelectSeq([j \in 1..Len(lines) |-> j],
              LAMBDA j : j \in PlainIdx(lines) \cup OpeningIdx(lines))

\* the line that closes the fence opened at line j, or the end of the text
ClosingIdx(lines, j) ==
    IF \E i \in (j + 1)..Len(lines) : IsFenceLine(lines[i])
    THEN CHOOSE i \in (j + 1)..Len(lines) :
             /\ IsFenceLine(lines[i])
             /\ \A h \in (j + 1)..(i - 1) : ~IsFenceLine(lines[h])
    ELSE Len(lines) + 1

\* the kind of the block that comes from line j
SourceKind(lines, j) ==
    IF IsFenceLine(lines[j]) THEN "code" ELSE ClassifyLine(lines[j]).type

\* C23: the k-th block pushed comes from the k-th of the lines that yield a
\* block (the lines outside a fence and the opening fence lines, in the order
\* of the text); a fence region gives one code block at that place, holding
\* the region's lines; and nothing else is returned.
OutputKeepsInputOrder ==
    run.pc # "idle" =>
        /\ Len(run.blocks) <= Len(SourceSeq(run.lines))
        /\ Returned => Len(run.blocks) = Len(SourceSeq(run.lines))
        /\ \A k \in 1..Len(run.blocks) :
              LET j == SourceSeq(run.lines)[k]
              IN  /\ run.blocks[k].type = SourceKind(run.lines, j)
                  /\ IsFenceLine(run.lines[j]) =>
                        run.blocks[k].rich_text =
                            SubSeq(run.lines, j + 1, ClosingIdx(run.lines, j) - 1)
                  /\ ~IsFenceLine(run.lines[j]) =>
                        run.blocks[k] = ClassifyLine(run.lines[j])

OutputOrderRan ==
    /\ Returned
    /\ run.lines = <<LinePara, LineFence, LineBlank, LineFence>>
    /\ SourceSeq(run.lines) = <<1, 2>>
    /\ Len(run.blocks) = 2
    /\ run.blocks[1].type = "paragraph" /\ run.blocks[2].type = "code"

----------------------------------------------------------------------------
(* The language of a code block.                                            *)

\* the step takes a fence-marker line
FenceLineTaken ==
    /\ InLoop
    /\ IsFenceLine(Line)
    /\ run'.i = run.i + 1

\* the text after the fence token of the line, trimmed
AfterToken(line) == Trim(Substring(Trim(line), 3))

OpensWithLanguage ==
    /\ run'.currentCodeBlock # Null
    /\ run'.currentCodeBlock.type = "code"
    /\ run'.currentCodeBlock.rich_text = <<>>
    /\ run'.currentCodeBlock.language =
          IF AfterToken(Line) = <<>> THEN PlainText ELSE AfterToken(Line)
    /\ run'.blocks = run.blocks

ClosesUnchanged ==
    /\ run'.currentCodeBlock = Null
    /\ run'.blocks = Append(run.blocks, run.currentCodeBlock)

\* C24: a fence line met outside a code block opens one whose language is the
\* trimmed text after the fence token, or "plain text" when there is none; a
\* fence line met inside a code block pushes that block as it is, whatever
\* follows the token on the line, and leaves no code block open.
LanguageFromOpeningLine ==
    [][FenceLineTaken =>
          IF InsideFence THEN ClosesUnchanged ELSE OpensWithLanguage]_vars

LanguageRan ==
    /\ Returned
    /\ run.lines = <<LineFenceJs, LineFence, LineFence, LineFenceJs>>
    /\ Len(run.blocks) = 2
    /\ run.blocks[1].language = <<"j">>
    /\ run.blocks[2].language = PlainText
    /\ run.currentCodeBlock = Null

----------------------------------------------------------------------------
(* The attributes of a block.                                               *)

\* the kinds createBlocks builds
Kinds ==
    {"paragraph", "heading_1", "heading_2", "heading_3", "bulleted_list_item",
     "to_do", "quote", "divider", "code", "image"}

\* the attributes a block of kind k may carry besides its kind
KindAttributes(k) ==
    CASE k = "to_do" -> {"rich_text", "checked"}
      [] k = "code" -> {"rich_text", "language"}
      [] k = "image" -> {"url", "caption"}
      [] k = "divider" -> {}
      [] OTHER -> {"rich_text"}

WellFormed(b) ==
    /\ b.type \in Kinds
    /\ DOMAIN b \subseteq {"type"} \cup KindAttributes(b.type)

\* C25: every block pushed, and the code block that is open, is of one of the
\* ten kinds and carries only the attributes of its kind: checked on to_do
\* alone, language on code alone, url and caption on image alone, no text on a
\* divider.
OnlyAttributesOfKind ==
    /\ \A k \in 1..Len(run.blocks) : WellFormed(run.blocks[k])
    /\ run.currentCodeBlock # Null => WellFormed(run.currentCodeBlock)

AttributesRan ==
    /\ Returned
    /\ run.lines = <<LineDone, LineFenceJs>>
    /\ DOMAIN run.blocks[1] = {"type", "rich_text", "checked"}
    /\ DOMAIN run.blocks[2] = {"type", "rich_text", "language"}

----------------------------------------------------------------------------
(* A delete that fails.                                                     *)

\* the invocation is over and its last delete, the k-th, failed
DeleteFailedAt(c, k) ==
    /\ call[c].pc = "done"
    /\ call[c].mode \in {"replace", "merge"}
    /\ Len(Deletes(c)) = k
    /\ k >= 1
    /\ ~Deletes(c)[k].ok
    /\ \A i \in 1..(k - 1) : Deletes(c)[i].ok

\* C26: when the delete of the k-th block of E fails after the deletes of the
\* first k - 1 succeeded, that delete is the last store request of the
\* invocation (no later delete, no append), the error text is returned, and
\* the page holds the blocks of E from the k-th on, in E's order, and nothing
\* else.
FailedDeleteStopsUpdate ==
    \A c \in Callers :
        \A k \in 1..MaxExisting :
            DeleteFailedAt(c, k) =>
                /\ Len(log[c]) = k + 1
                /\ log[c][k + 1].op = "delete"
                /\ log[c][k + 1].id = E(c)[k].id
                /\ Appends(c) = <<>>
                /\ call[c].result = "error"
                /\ page = SubSeq(E(c), k, Len(E(c)))

FailedDeleteStopped ==
    \E c \in Callers :
        /\ DeleteFailedAt(c, 2)
        /\ call[c].mode = "merge"
        /\ Len(E(c)) = 2
        /\ page = <<E(c)[2]>>

----------------------------------------------------------------------------
(* create_page and update_page on the same content.                         *)

CreateRequests == SelectSeq(create.log, LAMBDA r : r.op = "pages.create")

\* C27: the children of every pages.create request are the blocks update_page
\* appends as new blocks for the same content, createBlocks(content), the
\* empty content and the blank ones included.
CreateSubmitsWhatUpdateSubmits ==
    \A i \in 1..Len(CreateRequests) :
        CreateRequests[i].children = createBlocks(create.args.content)

----------------------------------------------------------------------------
(* The result of createBlocks is never empty.                               *)

\* C28: createBlocks returns at least one block for every text, the empty
\* text and the text that is one fence marker included, so a replace that
\* returned the success text leaves at least one block on the page.
NeverEmpty ==
    /\ Returned => run.blocks # <<>>
    /\ \A c \in Callers :
          (Succeeded(c) /\ call[c].mode = "replace") =>
              (page # <<>> /\ BlocksOf(page) = run.blocks)

\* the empty text went through a replace
EmptyTextReplaced ==
    \E c \in Callers :
        /\ Succeeded(c) /\ call[c].mode = "replace"
        /\ call[c].content = <<>>
        /\ BlocksOf(page) = <<EmptyParagraph>>

----------------------------------------------------------------------------
(* create_page confirms the parent first.                                   *)

TitleProperty(a) == Some([title |-> IF a.title = None THEN <<>> ELSE a.title[1]])

\* the j-th request is a pages.create that follows a database retrieval that
\* succeeded, and creates a database item with the caller's properties
AsDatabaseItem(j) ==
    /\ j = 2
    /\ create.log[1].op = "databases.retrieve" /\ create.log[1].ok
    /\ create.log[j].parent = "database_id"
    /\ create.log[j].properties = create.args.properties

\* the j-th request is a pages.create that follows a database retrieval that
\* failed and a page retrieval that succeeded, and creates a page under the
\* page with a title property
AsSubPage(j) ==
    /\ j = 3
    /\ create.log[1].op = "databases.retrieve" /\ ~create.log[1].ok
    /\ create.log[2].op = "pages.retrieve" /\ create.log[2].ok
    /\ create.log[j].parent = "page_id"
    /\ create.log[j].properties = TitleProperty(create.args)

BothRetrievalsFailed ==
    /\ Len(create.log) >= 2
    /\ create.log[1].op = "databases.retrieve" /\ ~create.log[1].ok
    /\ create.log[2].op = "pages.retrieve" /\ ~create.log[2].ok

\* C29: every pages.create request comes right after a database retrieval
\* that succeeded (parent database_id, the caller's properties) or after a
\* failed database retrieval and a page retrieval that succeeded (parent
\* page_id, a title property); when both retrievals fail the invocation ends
\* there with the error text and no pages.create.
ParentConfirmedBeforeCreate ==
    /\ \A j \in 1..Len(create.log) :
          create.log[j].op = "pages.create" => (AsDatabaseItem(j) \/ AsSubPage(j))
    /\ BothRetrievalsFailed =>
          /\ create.pc = "done"
          /\ create.result = "error"
          /\ CreateRequests = <<>>
          /\ Len(create.log) = 2

\* a page was created under a page after the database retrieval failed
SubPageCreated ==
    /\ create.pc = "done" /\ create.result = "success"
    /\ Len(create.log) = 3
    /\ AsSubPage(Len(create.log))
    /\ create.args.title = Some(TitleText)
    /\ create.made >= 1

----------------------------------------------------------------------------
(* Arguments the schema refuses.                                            *)

\* the invocation of c was entered with arguments that fail the validation
Refused(c) == call[c].pc # "idle" /\ ~ValidArgs(call[c].args)

\* C30: an invocation whose arguments fail the validation (no pageId, no
\* content, a mode, a position or a type outside the enums) issues no store
\* request and leaves the page as it is, and it ends with the error thrown to
\* the dispatcher, which is not the error text a fault of the store gives;
\* no other invocation ends that way.
InvalidArgsThrown ==
    /\ [](\A c \in Callers :
             /\ Refused(c) =>
                   (call[c].pc = "done" /\ call[c].result = "thrown" /\ log[c] = <<>>)
             /\ call[c].result = "thrown" => Refused(c))
    /\ [][\A c \in Callers :
             (call'[c] # call[c] /\ Refused(c)') => (page' = page /\ nextId' = nextId)]_vars

\* a call without content was refused while the page held its two blocks
InvalidArgsRefused ==
    \E c \in Callers :
        /\ Refused(c)
        /\ "content" \notin DOMAIN call[c].args
        /\ call[c].result = "thrown"
        /\ Len(page) = 2

====
